---- MODULE Spec2Model ----
(***************************************************************************)
(* Model of the Kulupu proof-of-work core, src/pow/src/lib.rs:             *)
(* signature-bound RandomX seals (SealV2), the shared LRU of RandomX       *)
(* caches (SHARED_CACHES), the thread-local VM binding (MACHINES), the     *)
(* epoch key resolution (key_hash) and RandomXAlgorithm::verify / mine.    *)
(*                                                                         *)
(* H256 values are sequences of HASH_SIZE bytes.  U256 values are          *)
(* sequences of HASH_SIZE base-256 digits, least significant first (the    *)
(* order of their SCALE encoding).                                         *)
(***************************************************************************)
EXTENDS Integers, Sequences, FiniteSets, TLC

(* ------------------------------ bounds -------------------------------- *)

\* Worker threads (each owns one thread-local MACHINES slot).
NumWorkers == 2
\* Cap on the number of FullCache constructions in one behaviour.
MaxBuilds == 4
\* Largest round budget handed to mine.
MaxRound == 2
\* Height of the best block of the modelled chain.
MaxHeight == 8400
\* Last block the side chain (fork 1) shares with the main chain (fork 0).
ForkPoint == 4000

(* ------------------------- program constants -------------------------- *)

PERIOD == 4096
OFFSET == 128
CACHE_CAPACITY == 2
HASH_SIZE == 32

Workers == 1..NumWorkers
\* Option<T>
None == [some |-> FALSE]
Some(v) == [some |-> TRUE, v |-> v]

(* ------------------------------ bytes --------------------------------- *)

\* A 32-byte value that is zero but for its first and last byte.
H256(first, last) ==
    [i \in 1..HASH_SIZE |->
        IF i = 1 THEN first ELSE IF i = HASH_SIZE THEN last ELSE 0]

ZeroHash == H256(0, 0)

Reverse(s) == [i \in 1..Len(s) |-> s[Len(s) + 1 - i]]

\* U256 of a small power of 256: digit `at` (0-based) is `d`.
U256Digit(at, d) == [i \in 1..HASH_SIZE |-> IF i = at + 1 THEN d ELSE 0]

\* U256::from(&hash[..]): the bytes read as a big-endian number.
U256_from_be(bytes) == Reverse(bytes)

\* The one element of a singleton set.
Only(S) == CHOOSE x \in S : TRUE

\* f applied to the value of x, with x evaluated once.
Bind(x, f(_)) == Only({ f(v) : v \in {x} })

RECURSIVE SumOver(_, _)
\* The sum of f(j) for j in S.
SumOver(f(_), S) ==
    IF S = {} THEN 0
    ELSE Bind(CHOOSE j \in S : TRUE, LAMBDA j : f(j) + SumOver(f, S \ {j}))

\* The digits of b that contribute rows to the schoolbook product.
NonZero(b) == {j \in 1..HASH_SIZE : b[j] # 0}

\* Column k (1-based, 1..2*HASH_SIZE) of the schoolbook product, before
\* carries: the digit products a[i] * b[j] with i + j = k + 1.
MulColumn(a, b, rows, k) ==
    LET term(j) == IF k + 1 - j \in 1..HASH_SIZE THEN a[k + 1 - j] * b[j] ELSE 0
    IN SumOver(term, rows)

RECURSIVE Propagate(_, _, _, _)
\* The digits of columns lo..hi once the carry into column lo and the carries
\* between them are added, and the carry out of column hi.
Propagate(columns, lo, hi, carry) ==
    IF lo = hi
    THEN Bind(columns[lo] + carry,
              LAMBDA t : [digits |-> <<t % 256>>, carry |-> t \div 256])
    ELSE Bind(Propagate(columns, lo, (lo + hi) \div 2, carry), LAMBDA left :
           Bind(Propagate(columns, (lo + hi) \div 2 + 1, hi, left.carry),
                LAMBDA right : [digits |-> left.digits \o right.digits,
                                carry  |-> right.carry]))

\* The 2*HASH_SIZE digits of the product whose columns are given.
ProductDigits(columns) == Propagate(columns, 1, 2 * HASH_SIZE, 0).digits

\* The product wrapped to 256 bits, and whether its upper 256 bits are set.
SplitProduct(full) ==
    [value      |-> SubSeq(full, 1, HASH_SIZE),
     overflowed |-> \E k \in (HASH_SIZE + 1)..(2 * HASH_SIZE) : full[k] # 0]

\* U256::overflowing_mul: little-endian base-256 digits, multiplied in full.
overflowing_mul(a, b) ==
    Only({ SplitProduct(ProductDigits(columns)) :
             columns \in { [k \in 1..(2 * HASH_SIZE) |-> MulColumn(x, y, rows, k)] \o << >> :
                 x \in {a \o << >>}, y \in {b \o << >>}, rows \in {NonZero(b)} } })

is_valid_hash_wrapping(hash, difficulty) ==
    LET num_hash == U256_from_be(hash)
    IN  Len(overflowing_mul(num_hash, difficulty).value) = HASH_SIZE

\* fn is_valid_hash
is_valid_hash(hash, difficulty) ==
    LET num_hash == U256_from_be(hash)
    IN  ~ overflowing_mul(num_hash, difficulty).overflowed

(* ----------------------- seals and their encoding --------------------- *)

\* struct Calculation { pre_hash, difficulty, nonce }
Calculation(pre_hash, difficulty, nonce) ==
    [pre_hash |-> pre_hash, difficulty |-> difficulty, nonce |-> nonce]

\* struct SealV2 { difficulty, nonce, signature }
SealV2(difficulty, nonce, signature) ==
    [difficulty |-> difficulty, nonce |-> nonce, signature |-> signature]

\* struct SealV1 { difficulty, nonce }
SealV1(difficulty, nonce) == [difficulty |-> difficulty, nonce |-> nonce]

\* Length of a sr25519 signature and of an encoded SealV2.
SignatureLen == 2 * HASH_SIZE
SealV2Len == 2 * HASH_SIZE + SignatureLen

\* #[derive(Encode)] Calculation: the fields in declaration order.
encode_calculation_swapped(c) == c.nonce \o c.difficulty \o c.pre_hash

encode_calculation(c) == c.pre_hash \o c.difficulty \o c.nonce

\* #[derive(Encode)] SealV2 and SealV1.
encode_seal(s) == s.difficulty \o s.nonce \o s.signature

encode_seal_v1(s) == s.difficulty \o s.nonce

\* SealV2::decode(&mut &seal[..]): fails on short input, ignores what follows
\* the last field.
decode_seal(bytes) ==
    IF Len(bytes) < SealV2Len THEN None
    ELSE Some(SealV2(SubSeq(bytes, 1, HASH_SIZE),
                     SubSeq(bytes, HASH_SIZE + 1, 2 * HASH_SIZE),
                     SubSeq(bytes, 2 * HASH_SIZE + 1, SealV2Len)))

\* sr25519::Public::decode(&mut &pre_digest[..])
decode_public(bytes) ==
    IF Len(bytes) < HASH_SIZE THEN None ELSE Some(SubSeq(bytes, 1, HASH_SIZE))

(* ----------------------------- signatures ----------------------------- *)

\* Key pairs are named by small numbers; pair.public() is 32 bytes.
KeyPairs == {"alice", "bob"}
KeyByte(pair) == IF pair = "alice" THEN 1 ELSE 2
SigRands == {0, 1}

public(pair) == H256(160 + KeyByte(pair), KeyByte(pair))

\* pair.sign(message) with the signer's randomness r: the commitment, then
\* a response bound to the key, the commitment and every message byte.
sr25519_sign(pair, message, r) ==
    Bind(message, LAMBDA m :
        H256(r, 0) \o
        [j \in 1..HASH_SIZE |->
            (17 * KeyByte(pair) + 29 * r + j + m[j] + 3 * m[HASH_SIZE + j]
               + 7 * m[2 * HASH_SIZE + j]) % 256])

\* sr25519::Pair::verify(signature, message, public)
sr25519_verify(signature, message, pub) ==
    \E pair \in KeyPairs :
        /\ public(pair) = pub
        /\ signature[1] \in SigRands
        /\ signature = sr25519_sign(pair, message, signature[1])

(* ------------------------------ RandomX ------------------------------- *)

\* randomx::FullCache::new(&key_hash[..]): a cache object, told apart by the
\* order of its construction, holding the state derived from the key.
FullCache(id, key) == [id |-> id, key |-> key]

\* randomx::FullVM::new(cache)
FullVM(cache) == [cache |-> cache]

\* The digest RandomX gives for a cache key and an input of 160 bytes
\* (Calculation, then signature): every byte of both decides it.  Its first
\* byte is 0 or 1.
Mix(key, input) ==
    LET at(i) == key[i] + 3 * input[i] + 5 * input[HASH_SIZE + i]
                   + 7 * input[2 * HASH_SIZE + i] + 11 * input[3 * HASH_SIZE + i]
                   + 13 * input[4 * HASH_SIZE + i]
    IN [i \in 1..HASH_SIZE |->
          IF i = 1 THEN (at(1) + at(HASH_SIZE)) % 2
          ELSE at(i) % 256]

Digest(key, input) ==
    Only({ Mix(k, bytes) : k \in {key}, bytes \in {input \o << >>} })

\* vm.calculate(input), on the VM of a cache.
calculate(vm, input) == Digest(vm.cache.key, input)

(* ------------------------ the chain of headers ------------------------ *)

\* A block is named by its chain (0: main, 1: side) and its height.  The side
\* chain shares the main chain's blocks up to ForkPoint.
Block(fork, number) == [fork |-> fork, number |-> number]

BlockExists(b) ==
    /\ b.number \in 0..MaxHeight
    /\ b.fork = 0 \/ (b.fork = 1 /\ b.number > ForkPoint)

ParentOf(b) ==
    IF b.fork = 1 /\ b.number - 1 <= ForkPoint
    THEN Block(0, b.number - 1) ELSE Block(b.fork, b.number - 1)

\* The bytes every block hash of the model starts with.
HashPrefix == [i \in 1..(HASH_SIZE - 3) |-> IF i = 1 THEN 177 ELSE 0]

\* header.hash()
BlockHash(b) == HashPrefix \o <<b.fork, b.number \div 256, b.number % 256>>

\* The block a hash of the model names.
BlockOf(id) == Block(id[HASH_SIZE - 2], id[HASH_SIZE - 1] * 256 + id[HASH_SIZE])

\* The header stored under a block: number(), parent_hash(), hash().
HeaderOf(b) ==
    [number      |-> b.number,
     parent_hash |-> IF b.number = 0 THEN ZeroHash ELSE BlockHash(ParentOf(b)),
     hash        |-> BlockHash(b)]

\* client.header(BlockId::Hash(id)): Some(header), or None for a hash the
\* backend has no header for (`unknown` holds the blocks it lacks).
header(unknown, id) ==
    LET b == BlockOf(id)
    IN IF id[1] = 177 /\ BlockExists(b) /\ b \notin unknown
       THEN Some(HeaderOf(b)) ELSE None

wrapping_sub(a, b) == a - b

\* u64::saturating_sub
saturating_sub(a, b) == IF a >= b THEN a - b ELSE 0

key_number_of_wrapping(parent_number) ==
    LET key_number == saturating_sub(parent_number, parent_number % PERIOD)
    IN IF saturating_sub(parent_number, key_number) < OFFSET
       THEN wrapping_sub(key_number, PERIOD)
       ELSE key_number

\* key_hash, lines 178-181: the height of the epoch's anchor block.
key_number_of(parent_number) ==
    LET key_number == saturating_sub(parent_number, parent_number % PERIOD)
    IN IF saturating_sub(parent_number, key_number) < OFFSET
       THEN saturating_sub(key_number, PERIOD)
       ELSE key_number

\* key_hash, lines 169-183: fetch the parent header and fix the target height.
\* The walk's state: where it is, what it looks for, the headers read so far.
key_hash_start(unknown, parent) ==
    LET parent_header == header(unknown, parent)
    IN IF ~ parent_header.some
       THEN [at |-> "err", current |-> HeaderOf(Block(0, 0)),
             key_number |-> 0, reads |-> 1]
       ELSE [at |-> "loop", current |-> parent_header.v,
             key_number |-> key_number_of(parent_header.v.number), reads |-> 1]

\* key_hash, lines 184-194: one test of the loop condition, then either one
\* pass through the loop body or the return.
key_hash_step(unknown, st) ==
    IF st.current.number # st.key_number
    THEN LET next == header(unknown, st.current.parent_hash)
         IN IF ~ next.some
            THEN [st EXCEPT !.at = "err", !.reads = @ + 1]
            ELSE [st EXCEPT !.current = next.v, !.reads = @ + 1]
    ELSE [st EXCEPT !.at = "ok"]

RECURSIVE key_hash_run(_, _, _)
\* key_hash, lines 184-194: the loop run for at most n steps, stopping when it
\* returns or fails (the n steps are split in halves to keep the evaluation
\* shallow).
key_hash_run(unknown, st, n) ==
    IF st.at # "loop" \/ n = 0 THEN st
    ELSE IF n = 1 THEN key_hash_step(unknown, st)
    ELSE Only({ key_hash_run(unknown, half, n - n \div 2) :
                  half \in {key_hash_run(unknown, st, n \div 2)} })

\* The loop as a whole.  Every pass lowers the height of `current` by one and
\* the genesis block has no parent to fetch, so number + 1 steps end it.
key_hash_loop(unknown, st) ==
    IF st.at # "loop" THEN st
    ELSE key_hash_run(unknown, st, st.current.number + 1)

\* fn key_hash: Ok(hash) or Err(Environment); `reads` counts the header lookups.
key_hash(unknown, parent) ==
    Only({ [ok    |-> st.at = "ok",
            hash  |-> IF st.at = "ok" THEN st.current.hash ELSE ZeroHash,
            reads |-> st.reads] :
           st \in {key_hash_loop(unknown, key_hash_start(unknown, parent))} })

\* runtime_api().identifier(parent): the runtime's algorithm identifier in the
\* state of the parent block.  No answer for a block the backend does not
\* know; the side chain still runs the runtime of the first seal generation.
identifier(backend, parent) ==
    IF ~ header(backend, parent).some THEN "err"
    ELSE IF parent[HASH_SIZE - 2] = 1 THEN "v1" ELSE "v2"

ALGORITHM_IDENTIFIER_V2 == "v2"

(* --------------------------- the LRU of caches ------------------------- *)

\* Sequences of [key, value], least recently used first.
RemoveAt(seq, i) == SubSeq(seq, 1, i - 1) \o SubSeq(seq, i + 1, Len(seq))

IndexOf(cache, key) ==
    IF \E i \in 1..Len(cache) : cache[i].key = key
    THEN CHOOSE i \in 1..Len(cache) : cache[i].key = key
    ELSE 0

lru_get_mut_no_refresh(cache, key) ==
    LET i == IndexOf(cache, key)
    IN IF i = 0 THEN [found |-> FALSE, value |-> FullCache(0, key), cache |-> cache]
       ELSE [found |-> TRUE, value |-> cache[i].value, cache |-> cache]

\* LruCache::get_mut: the value under the key, which becomes the most
\* recently used entry.
lru_get_mut(cache, key) ==
    LET i == IndexOf(cache, key)
    IN IF i = 0 THEN [found |-> FALSE, value |-> FullCache(0, key), cache |-> cache]
       ELSE [found |-> TRUE, value |-> cache[i].value,
             cache |-> Append(RemoveAt(cache, i), cache[i])]

lru_insert_unbounded(cache, key, value) ==
    Append(IF IndexOf(cache, key) = 0 THEN cache
           ELSE RemoveAt(cache, IndexOf(cache, key)),
           [key |-> key, value |-> value])

lru_insert_evict_newest(cache, key, value) ==
    LET i == IndexOf(cache, key)
        kept == IF i = 0 THEN cache ELSE RemoveAt(cache, i)
    IN IF Len(kept) + 1 > CACHE_CAPACITY
       THEN Append(SubSeq(kept, 1, Len(kept) - 1), [key |-> key, value |-> value])
       ELSE Append(kept, [key |-> key, value |-> value])

\* LruCache::insert: the entry becomes the most recently used one; over
\* capacity, the least recently used entry is dropped.
lru_insert(cache, key, value) ==
    LET i == IndexOf(cache, key)
        put == Append(IF i = 0 THEN cache ELSE RemoveAt(cache, i),
                      [key |-> key, value |-> value])
    IN IF Len(put) > CACHE_CAPACITY THEN Tail(put) ELSE put

(* ------------------------ the inputs of the model ---------------------- *)

PreHashes == {H256(0, 1), H256(0, 2)}
Nonces == {H256(0, 1), H256(0, 2)}
\* Difficulty 1 and difficulty 256.
Difficulties == {U256Digit(0, 1), U256Digit(1, 1)}
\* The author bytes of a block: absent, too short to decode, or a public key.
PreDigests == {None, Some(<<7>>)} \cup {Some(public(k)) : k \in KeyPairs}

\* Parents: on the main chain and on the side chain at the height where the
\* second epoch's key takes over, the pruned block, and the best block (whose
\* parent is the pruned block).
ParentA == BlockHash(Block(0, PERIOD + OFFSET))
ParentB == BlockHash(Block(1, PERIOD + OFFSET))
ParentPruned == BlockHash(Block(0, MaxHeight - 1))
ParentBest == BlockHash(Block(0, MaxHeight))
Parents == {ParentA, ParentB, ParentPruned, ParentBest}

\* The backend of the modelled node: it has pruned the header below its best
\* block.
PrunedBackend == {Block(0, MaxHeight - 1)}

\* The key hashes compute is called with directly: the anchors of the two
\* chains and the genesis block.
EpochKeys ==
    {BlockHash(Block(0, PERIOD)), BlockHash(Block(1, PERIOD)), BlockHash(Block(0, 0))}

(* ------------------------------ the state ----------------------------- *)

VARIABLES
    unknown,        \* the blocks the header backend has no header for
    answers,        \* per parent, what the runtime and key_hash answer on it
    pair,           \* RandomXAlgorithm.pair: Option<sr25519::Pair>
    shared_caches,  \* SHARED_CACHES: the LRU of Arc<FullCache>, by key hash
    lock,           \* the Mutex around SHARED_CACHES: its holder, or 0
    constructed,    \* FullCache::new calls so far
    machines,       \* MACHINES of each worker thread: Option<(H256, FullVM)>
    pc,             \* where each worker is in its call
    call,           \* the call each worker runs: arguments, locals, outcome
    recency,        \* the key hashes looked up or inserted, by last use
    mined           \* the seal a mine call returned, on its way to verify

node == <<unknown, answers, pair>>
caches == <<shared_caches, lock, constructed, machines, recency>>
vars == <<unknown, answers, pair, shared_caches, lock, constructed, machines,
          pc, call, recency, mined>>

\* The record of a call: its arguments, then its locals (empty until set),
\* the header reads and hash calculations it has done, and its outcome.
IdleCall ==
    [op |-> "idle", parent |-> << >>, pre_hash |-> << >>,
     pre_digest |-> None, seal |-> << >>, difficulty |-> << >>,
     round |-> 0, rng_ok |-> TRUE,
     key_hash |-> << >>, nonce |-> << >>, signature |-> << >>,
     rounds_left |-> 0, reads |-> 0, hashes |-> 0,
     result |-> "", work |-> << >>]

\* The node answers for a parent as the runtime and key_hash do on its
\* backend; the answers are worked out once, when the backend is fixed.
AnswersOn(backend, parents) ==
    [p \in parents |-> [identifier |-> identifier(backend, p),
                        key_hash   |-> key_hash(backend, p)]]

InitCaches ==
    /\ shared_caches = << >>
    /\ lock = 0
    /\ constructed = 0
    /\ machines = [w \in Workers |-> None]
    /\ pc = [w \in Workers |-> "idle"]
    /\ call = [w \in Workers |-> IdleCall]
    /\ recency = << >>
    /\ mined = None

(* ------------------------- ComputeV2::compute -------------------------- *)

need_new_vm_if_unbound(ms, key) == ~ ms.some

need_new_vm_always(ms, key) == TRUE

\* lines 116-118
need_new_vm(ms, key) == IF ms.some THEN ms.v.key_hash # key ELSE TRUE

\* Where a call goes when it enters compute: to the lock, or straight to the
\* hash with the VM it holds.
EnterCompute(w, key) == IF need_new_vm(machines[w], key) THEN "lock" ELSE "calc"

\* A new call may start only while cache constructions remain for it and for
\* the calls already waiting to look up.
BuildsLeft ==
    constructed + Cardinality({v \in Workers : pc[v] \in {"lock", "build"}})
        < MaxBuilds

\* The key hashes by last use, with `key` used now.
Touch(key) == Append(SelectSeq(recency, LAMBDA k : k # key), key)

Acquire_always_build(w) ==
    /\ pc[w] = "lock"
    /\ lock = 0
    /\ lock' = w
    /\ pc' = [pc EXCEPT ![w] = "build"]
    /\ UNCHANGED <<node, shared_caches, machines, recency, constructed, call, mined>>

Acquire_hit_keeps_vm(w) ==
    /\ pc[w] = "lock"
    /\ lock = 0
    /\ \E got \in {lru_get_mut(shared_caches, call[w].key_hash)} :
          IF got.found
          THEN /\ shared_caches' = got.cache
               /\ recency' = Touch(call[w].key_hash)
               /\ pc' = [pc EXCEPT ![w] = "calc"]
               /\ UNCHANGED <<lock, machines>>
          ELSE /\ lock' = w
               /\ pc' = [pc EXCEPT ![w] = "build"]
               /\ UNCHANGED <<shared_caches, machines, recency>>
    /\ UNCHANGED <<node, constructed, call, mined>>

\* lines 121-124 and 132: take the lock and look the key up.  On a hit a new
\* VM is bound to the cache found and the lock is released: the critical
\* section is one step.  On a miss the lock stays held for the construction.
Acquire(w) ==
    /\ pc[w] = "lock"
    /\ lock = 0
    /\ \E got \in {lru_get_mut(shared_caches, call[w].key_hash)} :
          IF got.found
          THEN /\ shared_caches' = got.cache
               /\ machines' = [machines EXCEPT ![w] =
                      Some([key_hash |-> call[w].key_hash, vm |-> FullVM(got.value)])]
               /\ recency' = Touch(call[w].key_hash)
               /\ pc' = [pc EXCEPT ![w] = "calc"]
               /\ UNCHANGED lock
          ELSE /\ lock' = w
               /\ pc' = [pc EXCEPT ![w] = "build"]
               /\ UNCHANGED <<shared_caches, machines, recency>>
    /\ UNCHANGED <<node, constructed, call, mined>>

Build_keeps_lock(w) ==
    /\ pc[w] = "build"
    /\ lock = w
    /\ \E cache \in {FullCache(constructed + 1, call[w].key_hash)} :
          /\ shared_caches' = lru_insert(shared_caches, call[w].key_hash, cache)
          /\ machines' = [machines EXCEPT ![w] =
                 Some([key_hash |-> call[w].key_hash, vm |-> FullVM(cache)])]
    /\ constructed' = constructed + 1
    /\ recency' = Touch(call[w].key_hash)
    /\ pc' = [pc EXCEPT ![w] = "calc"]
    /\ UNCHANGED <<node, lock, call, mined>>

\* lines 126-132: build the cache for the key, insert it, bind a new VM to
\* it, and release the lock.
Build(w) ==
    /\ pc[w] = "build"
    /\ lock = w
    /\ \E cache \in {FullCache(constructed + 1, call[w].key_hash)} :
          /\ shared_caches' = lru_insert(shared_caches, call[w].key_hash, cache)
          /\ machines' = [machines EXCEPT ![w] =
                 Some([key_hash |-> call[w].key_hash, vm |-> FullVM(cache)])]
    /\ constructed' = constructed + 1
    /\ recency' = Touch(call[w].key_hash)
    /\ lock' = 0
    /\ pc' = [pc EXCEPT ![w] = "calc"]
    /\ UNCHANGED <<node, call, mined>>

\* lines 134-140: the hash of (calculation, signature) on the worker's VM; the
\* assertion on the bound key hash and the expect on the binding panic.
Work(w, c) ==
    IF ~ machines[w].some THEN None
    ELSE IF machines[w].v.key_hash # c.key_hash THEN None
    ELSE Some(calculate(machines[w].v.vm,
                  encode_calculation(Calculation(c.pre_hash, c.difficulty, c.nonce))
                     \o c.signature))

\* lines 142-146: the seal compute hands back.
ComputedSeal(c) == SealV2(c.difficulty, c.nonce, c.signature)

(* ------------------- ComputeV2::sign, verify, compute ------------------ *)

\* ComputeV2::sign, lines 79-87
compute_sign(c, signer, r) ==
    sr25519_sign(signer,
                 encode_calculation(Calculation(c.pre_hash, c.difficulty, c.nonce)), r)

compute_verify_any(c, signature, pub) == TRUE

\* ComputeV2::verify, lines 89-105
compute_verify(c, signature, pub) ==
    sr25519_verify(signature,
                   encode_calculation(Calculation(c.pre_hash, c.difficulty, c.nonce)),
                   pub)

\* The ComputeV2 value and the signature of a direct call of compute: the
\* calls differ in their key hash only, which is all the call record keeps.
\* compute does not check the signature it is handed.
ComputeV2(key) ==
    [key_hash |-> key, pre_hash |-> H256(0, 1), difficulty |-> U256Digit(1, 1),
     nonce |-> H256(0, 1), signature |-> H256(0, 3) \o H256(5, 7)]

\* A direct call of ComputeV2::compute.
ComputeCall(w) ==
    /\ pc[w] = "idle"
    /\ \E key \in EpochKeys :
          /\ need_new_vm(machines[w], key) => BuildsLeft
          /\ call' = [call EXCEPT ![w] =
                         [IdleCall EXCEPT !.op = "compute", !.key_hash = key]]
          /\ pc' = [pc EXCEPT ![w] = EnterCompute(w, key)]
    /\ UNCHANGED <<node, caches, mined>>

\* lines 134-147 for a direct call: the seal and the digest are returned.
CalcCompute(w) ==
    /\ pc[w] = "calc"
    /\ call[w].op = "compute"
    /\ \E work \in {Work(w, ComputeV2(call[w].key_hash))} :
         call' = [call EXCEPT ![w] =
             IF ~ work.some THEN [@ EXCEPT !.result = "panic"]
             ELSE [@ EXCEPT !.result = "work", !.hashes = @ + 1,
                            !.work = work.v]]
    /\ pc' = [pc EXCEPT ![w] = "done"]
    /\ UNCHANGED <<node, caches, mined>>

\* The call returns to its caller; the worker is free for the next one.  The
\* seal in flight is used up by the verify call it went to.
Return(w) ==
    /\ pc[w] = "done"
    /\ pc' = [pc EXCEPT ![w] = "idle"]
    /\ call' = [call EXCEPT ![w] = IdleCall]
    /\ mined' = IF call[w].op = "verify" THEN None ELSE mined
    /\ UNCHANGED <<node, caches>>

(* Workers calling compute concurrently; no parent is asked about. *)
Init ==
    /\ unknown = PrunedBackend
    /\ answers = AnswersOn(unknown, {})
    /\ pair = Some("alice")
    /\ InitCaches

Next ==
    \E w \in Workers :
        \/ ComputeCall(w)
        \/ Acquire(w)
        \/ Build(w)
        \/ CalcCompute(w)
        \/ Return(w)

Spec == Init /\ [][Next]_vars

(* ----------------------- RandomXAlgorithm::verify ---------------------- *)

\* lines 247-271, once the key hash is there: decode the seal, then the
\* author, then check the signature.
verify_checks(c, seal) ==
    IF ~ seal.some THEN [c EXCEPT !.result = "false"]
    ELSE Bind([c EXCEPT !.nonce = seal.v.nonce, !.signature = seal.v.signature],
              LAMBDA c2 :
                IF ~ c.pre_digest.some THEN [c2 EXCEPT !.result = "false"]
                ELSE IF ~ decode_public(c.pre_digest.v).some
                THEN [c2 EXCEPT !.result = "false"]
                ELSE IF ~ compute_verify(c2, seal.v.signature,
                                         decode_public(c.pre_digest.v).v)
                THEN [c2 EXCEPT !.result = "false"]
                ELSE c2)

verify_front_decode_first(id, kh, c) ==
    IF ~ decode_seal(c.seal).some THEN [c EXCEPT !.result = "false"]
    ELSE IF id = "err" \/ ~ kh.ok THEN [c EXCEPT !.result = "err"]
    ELSE IF id # ALGORITHM_IDENTIFIER_V2 THEN [c EXCEPT !.result = "panic"]
    ELSE verify_checks([c EXCEPT !.key_hash = kh.hash, !.reads = kh.reads],
                       decode_seal(c.seal))

\* lines 237-271: everything verify does before it calls compute, given the
\* runtime's answer `id` and key_hash's answer `kh` for the parent.  The call
\* ends here (result set) or goes on with the compute context filled in.
verify_front(id, kh, c) ==
    IF id = "err" THEN [c EXCEPT !.result = "err"]
    ELSE IF id # ALGORITHM_IDENTIFIER_V2 THEN [c EXCEPT !.result = "panic"]
    ELSE IF ~ kh.ok THEN [c EXCEPT !.result = "err", !.reads = kh.reads]
    ELSE Bind(decode_seal(c.seal), LAMBDA seal :
              verify_checks([c EXCEPT !.key_hash = kh.hash, !.reads = kh.reads],
                            seal))

verify_back_no_seal_check(c, work) ==
    IF ~ work.some THEN [c EXCEPT !.result = "panic"]
    ELSE [c EXCEPT !.hashes = @ + 1, !.work = work.v,
                   !.result = IF ~ is_valid_hash(work.v, c.difficulty)
                              THEN "false" ELSE "true"]

\* lines 274-284: what verify makes of the seal and the digest compute returns.
verify_back(c, work) ==
    IF ~ work.some THEN [c EXCEPT !.result = "panic"]
    ELSE [c EXCEPT !.hashes = @ + 1, !.work = work.v,
                   !.result = IF ComputedSeal(c) # decode_seal(c.seal).v THEN "false"
                              ELSE IF ~ is_valid_hash(work.v, c.difficulty)
                              THEN "false" ELSE "true"]

\* Seals handed to verify that no miner of the model produced: malformed ones
\* and seals the author "bob" signed himself, for the call's pre-hash and
\* difficulty, with either difficulty in the seal.
ForeignSeals(pre_hash, difficulty) ==
    { << >>, encode_seal_v1(SealV1(difficulty, H256(0, 1))) }
    \cup { encode_seal(SealV2(d, H256(0, 1),
               sr25519_sign("bob",
                   encode_calculation(Calculation(pre_hash, difficulty, H256(0, 1))),
                   0))) :
           d \in Difficulties }

\* What an attacker makes of a seal: a byte appended, the last byte cut, a
\* signature byte changed, the difficulty or the nonce replaced.
Tampered(s) ==
    {s \o <<0>>, SubSeq(s, 1, Len(s) - 1), [s EXCEPT ![Len(s)] = (@ + 1) % 256]}
    \cup {d \o SubSeq(s, HASH_SIZE + 1, Len(s)) : d \in Difficulties}
    \cup {SubSeq(s, 1, HASH_SIZE) \o n \o SubSeq(s, 2 * HASH_SIZE + 1, Len(s)) :
            n \in Nonces}

\* The verify calls a mined seal can end up in: the call its miner meant, or
\* that call with one argument replaced.
Deliveries(m) ==
    {m} \cup {[m EXCEPT !.parent = p] : p \in Parents}
        \cup {[m EXCEPT !.pre_hash = h] : h \in PreHashes}
        \cup {[m EXCEPT !.pre_digest = a] : a \in PreDigests}
        \cup {[m EXCEPT !.difficulty = d] : d \in Difficulties}
        \cup {[m EXCEPT !.seal = s] : s \in Tampered(m.seal)}

\* No call is running.
Quiet == \A v \in Workers : pc[v] = "idle"

\* verify up to its call of compute, for the arguments in `a`.
StartVerify(w, a) ==
    \E c \in {verify_front(answers[a.parent].identifier, answers[a.parent].key_hash,
                 [IdleCall EXCEPT !.op = "verify", !.parent = a.parent,
                                  !.pre_hash = a.pre_hash,
                                  !.pre_digest = a.pre_digest,
                                  !.seal = a.seal,
                                  !.difficulty = a.difficulty])} :
        /\ call' = [call EXCEPT ![w] = c]
        /\ IF c.result # "" THEN pc' = [pc EXCEPT ![w] = "done"]
           ELSE /\ need_new_vm(machines[w], c.key_hash) => BuildsLeft
                /\ pc' = [pc EXCEPT ![w] = EnterCompute(w, c.key_hash)]

\* A call of verify on a seal from elsewhere.  On the parents where verify
\* ends before it reads them, one pre-hash and one difficulty are enough.
VerifyCall(w) ==
    /\ pc[w] = "idle"
    /\ \E pre_hash \in PreHashes, difficulty \in Difficulties :
         \E seal \in ForeignSeals(pre_hash, difficulty) :
           \E parent \in Parents, pre_digest \in PreDigests :
              /\ parent = ParentA
                   \/ (pre_hash = H256(0, 1) /\ difficulty = U256Digit(0, 1))
              /\ StartVerify(w, [parent |-> parent, pre_hash |-> pre_hash,
                              pre_digest |-> pre_digest, difficulty |-> difficulty,
                              seal |-> seal])
    /\ UNCHANGED <<node, caches, mined>>

\* A call of verify on the seal in flight.
VerifyMined(w) ==
    /\ pc[w] = "idle"
    /\ mined.some
    /\ \E a \in Deliveries(mined.v) : StartVerify(w, a)
    /\ UNCHANGED <<node, caches, mined>>

\* The seal in flight is lost.
DropMined ==
    /\ Quiet
    /\ mined.some
    /\ mined' = None
    /\ UNCHANGED <<node, caches, pc, call>>

\* The rest of verify, from the hash on.
CalcVerify(w) ==
    /\ pc[w] = "calc"
    /\ call[w].op = "verify"
    /\ call' = [call EXCEPT ![w] = verify_back(call[w], Work(w, call[w]))]
    /\ pc' = [pc EXCEPT ![w] = "done"]
    /\ UNCHANGED <<node, caches, mined>>

(* ------------------------ RandomXAlgorithm::mine ----------------------- *)

mine_front_no_author_check(signer, c) ==
    IF ~ signer.some THEN [c EXCEPT !.result = "none"]
    ELSE IF ~ c.pre_digest.some THEN [c EXCEPT !.result = "none"]
    ELSE IF ~ decode_public(c.pre_digest.v).some THEN [c EXCEPT !.result = "none"]
    ELSE c

\* lines 295-315: mine abstains (result set) without a signing key or when
\* the author is absent, undecodable or not the key's public key.
mine_front(signer, c) ==
    IF ~ signer.some THEN [c EXCEPT !.result = "none"]
    ELSE IF ~ c.pre_digest.some THEN [c EXCEPT !.result = "none"]
    ELSE IF ~ decode_public(c.pre_digest.v).some THEN [c EXCEPT !.result = "none"]
    ELSE IF decode_public(c.pre_digest.v).v # public(signer.v)
    THEN [c EXCEPT !.result = "none"]
    ELSE c

mine_setup_one_round(rng_ok, kh, c) ==
    IF ~ rng_ok THEN [c EXCEPT !.rng_ok = FALSE, !.result = "err"]
    ELSE IF ~ kh.ok THEN [c EXCEPT !.result = "err", !.reads = kh.reads]
    ELSE [c EXCEPT !.key_hash = kh.hash, !.reads = kh.reads,
                   !.rounds_left = IF c.round = 0 THEN 1 ELSE c.round]

mine_setup_none_on_lookup_failure(rng_ok, kh, c) ==
    IF ~ rng_ok THEN [c EXCEPT !.rng_ok = FALSE, !.result = "err"]
    ELSE IF ~ kh.ok THEN [c EXCEPT !.result = "none", !.reads = kh.reads]
    ELSE Bind([c EXCEPT !.key_hash = kh.hash, !.reads = kh.reads,
                        !.rounds_left = c.round],
              LAMBDA c1 : IF c.round = 0 THEN [c1 EXCEPT !.result = "none"] ELSE c1)

\* lines 317-323 and 341: the generator is seeded, the key hash resolved, and
\* a budget of no rounds is used up at once.
mine_setup(rng_ok, kh, c) ==
    IF ~ rng_ok THEN [c EXCEPT !.rng_ok = FALSE, !.result = "err"]
    ELSE IF ~ kh.ok THEN [c EXCEPT !.result = "err", !.reads = kh.reads]
    ELSE Bind([c EXCEPT !.key_hash = kh.hash, !.reads = kh.reads,
                        !.rounds_left = c.round],
              LAMBDA c1 : IF c.round = 0 THEN [c1 EXCEPT !.result = "none"] ELSE c1)

\* lines 324-333: one attempt up to its call of compute: a fresh nonce, signed.
mine_attempt(c, signer, nonce, r) ==
    Bind([c EXCEPT !.nonce = nonce],
         LAMBDA c1 : [c1 EXCEPT !.signature = compute_sign(c1, signer, r)])

\* A call of mine, up to the first call of compute.  Where mine ends before it
\* reads them, one pre-hash and one difficulty are enough.
MineCall(w) ==
    /\ pc[w] = "idle"
    /\ \E parent \in Parents, pre_hash \in PreHashes, pre_digest \in PreDigests,
          difficulty \in Difficulties, round \in 0..MaxRound :
         /\ (pair.some /\ pre_digest = Some(public(pair.v))
                       /\ parent \in {ParentA, ParentB})
               \/ (pre_hash = H256(0, 1) /\ difficulty = U256Digit(0, 1))
         /\ \E c0 \in {mine_front(pair,
                      [IdleCall EXCEPT !.op = "mine", !.parent = parent,
                                       !.pre_hash = pre_hash,
                                       !.pre_digest = pre_digest,
                                       !.difficulty = difficulty,
                                       !.round = round])} :
           IF c0.result # ""
           THEN /\ call' = [call EXCEPT ![w] = c0]
                /\ pc' = [pc EXCEPT ![w] = "done"]
           ELSE \E rng_ok \in BOOLEAN :
                 \E c \in {mine_setup(rng_ok, answers[parent].key_hash, c0)} :
                   IF c.result # ""
                   THEN /\ call' = [call EXCEPT ![w] = c]
                        /\ pc' = [pc EXCEPT ![w] = "done"]
                   ELSE /\ need_new_vm(machines[w], c.key_hash) => BuildsLeft
                        /\ \E nonce \in Nonces, r \in SigRands :
                             call' = [call EXCEPT ![w] =
                                         mine_attempt(c, pair.v, nonce, r)]
                        /\ pc' = [pc EXCEPT ![w] = EnterCompute(w, c.key_hash)]
    /\ UNCHANGED <<node, caches, mined>>

mine_back_no_countdown(c, work) ==
    IF ~ work.some THEN [c EXCEPT !.result = "panic"]
    ELSE IF is_valid_hash(work.v, c.difficulty)
    THEN [c EXCEPT !.hashes = @ + 1, !.work = work.v, !.result = "seal"]
    ELSE [c EXCEPT !.hashes = @ + 1, !.work = work.v]

\* lines 334-341, given the digest of the attempt: the seal if the digest
\* meets the difficulty, none when the rounds are used up, else the call as
\* it stands before its next attempt.
mine_back(c, work) ==
    IF ~ work.some THEN [c EXCEPT !.result = "panic"]
    ELSE IF is_valid_hash(work.v, c.difficulty)
    THEN [c EXCEPT !.hashes = @ + 1, !.work = work.v, !.result = "seal"]
    ELSE IF c.rounds_left = 1
    THEN [c EXCEPT !.hashes = @ + 1, !.work = work.v, !.result = "none",
                   !.rounds_left = 0]
    ELSE [c EXCEPT !.hashes = @ + 1, !.work = work.v, !.rounds_left = @ - 1]

\* line 336: Some(seal.encode()), the seal a successful call of mine returns.
mined_seal(c) == encode_seal(ComputedSeal(c))

\* The hash of one attempt and what mine makes of it.
CalcMine(w) ==
    /\ pc[w] = "calc"
    /\ call[w].op = "mine"
    /\ \E c \in {mine_back(call[w], Work(w, call[w]))} :
         IF c.result # ""
         THEN /\ call' = [call EXCEPT ![w] = c]
              /\ pc' = [pc EXCEPT ![w] = "done"]
              /\ mined' = IF c.result = "seal"
                          THEN Some([parent |-> c.parent, pre_hash |-> c.pre_hash,
                                     pre_digest |-> c.pre_digest,
                                     difficulty |-> c.difficulty,
                                     seal |-> mined_seal(c)])
                          ELSE mined
         ELSE /\ \E nonce \in Nonces, r \in SigRands :
                   call' = [call EXCEPT ![w] = mine_attempt(c, pair.v, nonce, r)]
              /\ pc' = [pc EXCEPT ![w] = EnterCompute(w, c.key_hash)]
              /\ UNCHANGED mined
    /\ UNCHANGED <<node, caches>>

(* Calls of verify and mine, one at a time, on any worker; a mined seal goes *)
(* to verify, or is lost, before the next call starts.                      *)
InitApi ==
    /\ unknown = PrunedBackend
    /\ answers = AnswersOn(unknown, Parents)
    /\ pair \in {None, Some("alice")}
    /\ InitCaches

NextApi ==
    \/ DropMined
    \/ \E w \in Workers :
        \/ Quiet /\ ~ mined.some /\ VerifyCall(w)
        \/ Quiet /\ ~ mined.some /\ MineCall(w)
        \/ Quiet /\ VerifyMined(w)
        \/ Acquire(w)
        \/ Build(w)
        \/ CalcVerify(w)
        \/ CalcMine(w)
        \/ Return(w)

SpecApi == InitApi /\ [][NextApi]_vars


(* ----------------------- compute, one call at a time ------------------ *)

NextSerial ==
    \E w \in Workers :
        \/ Quiet /\ ComputeCall(w)
        \/ Acquire(w)
        \/ Build(w)
        \/ CalcCompute(w)
        \/ Return(w)

SpecSerial == Init /\ [][NextSerial]_vars

(* ---------------------------- key_hash alone --------------------------- *)

\* Heights around the epoch boundaries and the offsets behind them.
KeyHeights ==
    {0, 1, OFFSET - 1, OFFSET, OFFSET + 1, 300,
     PERIOD - 1, PERIOD, PERIOD + 1,
     PERIOD + OFFSET - 1, PERIOD + OFFSET, PERIOD + OFFSET + 1, 4300,
     2 * PERIOD - 1, 2 * PERIOD, 2 * PERIOD + OFFSET - 1, 2 * PERIOD + OFFSET,
     MaxHeight}

KeyParents ==
    {BlockHash(b) : b \in {c \in {Block(f, h) : f \in {0, 1}, h \in KeyHeights} :
                              BlockExists(c)}}

\* Header backends: the whole chain, and chains with one header pruned.
Backends == {{}, PrunedBackend, {Block(0, PERIOD + 4)}, {Block(0, 100)}}

\* A call of key_hash, lines 159-195.
KeyHashCall(w) ==
    /\ pc[w] = "idle"
    /\ \E parent \in KeyParents :
         \E kh \in {answers[parent].key_hash} :
            call' = [call EXCEPT ![w] =
                [IdleCall EXCEPT !.op = "key_hash", !.parent = parent,
                                 !.key_hash = IF kh.ok THEN kh.hash ELSE << >>,
                                 !.reads = kh.reads,
                                 !.result = IF kh.ok THEN "ok" ELSE "err"]]
    /\ pc' = [pc EXCEPT ![w] = "done"]
    /\ UNCHANGED <<node, caches, mined>>

InitKey ==
    /\ unknown \in Backends
    /\ answers = AnswersOn(unknown, KeyParents)
    /\ pair = None
    /\ InitCaches

NextKey ==
    \E w \in Workers :
        \/ Quiet /\ KeyHashCall(w)
        \/ Return(w)

SpecKey == InitKey /\ [][NextKey]_vars

(* -------------------------- is_valid_hash alone ------------------------ *)

\* The 32 bytes that are `low` from byte `from` on (1-based, big-endian) and
\* `high` at byte `from - 1`, zero before.
HashFrom(from, high, low) ==
    [i \in 1..HASH_SIZE |->
        IF i >= from THEN low ELSE IF i = from - 1 THEN high ELSE 0]

\* Digests around the powers of two that decide an overflow: 0, 1, 255,
\* 2^128 - 1, 2^128, 2^248, 2^255, 2^256 - 1 and others.
ValidHashes ==
    {HashFrom(1, 0, 0), H256(0, 1), H256(0, 255), HashFrom(17, 0, 255),
     HashFrom(17, 1, 0), H256(1, 0), H256(128, 0), H256(127, 255),
     HashFrom(1, 0, 255), HashFrom(2, 0, 255), HashFrom(32, 1, 0),
     [i \in 1..HASH_SIZE |-> (7 * i) % 256]}

\* Difficulties: 0, 1, 2, 3, 255, 256, 257, 2^128 - 1, 2^128, 2^128 + 1,
\* 2^255, 2^256 - 1.
ValidDifficulties ==
    {U256Digit(0, 0), U256Digit(0, 1), U256Digit(0, 2), U256Digit(0, 3),
     U256Digit(0, 255), U256Digit(1, 1), Reverse(HashFrom(32, 1, 1)),
     Reverse(HashFrom(17, 0, 255)), U256Digit(16, 1),
     Reverse([H256(0, 1) EXCEPT ![16] = 1]),
     U256Digit(31, 128), Reverse(HashFrom(1, 0, 255))}

\* A call of is_valid_hash, lines 152-157.
IsValidCall(w) ==
    /\ pc[w] = "idle"
    /\ \E hash \in ValidHashes, difficulty \in ValidDifficulties :
         call' = [call EXCEPT ![w] =
             [IdleCall EXCEPT !.op = "is_valid", !.work = hash,
                              !.difficulty = difficulty,
                              !.result = IF is_valid_hash(hash, difficulty)
                                         THEN "true" ELSE "false"]]
    /\ pc' = [pc EXCEPT ![w] = "done"]
    /\ UNCHANGED <<node, caches, mined>>

InitValid ==
    /\ unknown = {}
    /\ answers = AnswersOn(unknown, {})
    /\ pair = None
    /\ InitCaches

NextValid ==
    \E w \in Workers :
        \/ Quiet /\ IsValidCall(w)
        \/ Return(w)

SpecValid == InitValid /\ [][NextValid]_vars

(* -------------------------------- claims ------------------------------- *)

\* Worker w has finished a call of `op` and not yet returned.
Done(w, op) == pc[w] = "done" /\ call[w].op = op

\* What the claims say of a verify call, from its arguments alone.
SealOf(c) == decode_seal(c.seal)
AuthorOf(c) == IF c.pre_digest.some THEN decode_public(c.pre_digest.v) ELSE None
SealDecodes(c) == SealOf(c).some
AuthorDecodes(c) == AuthorOf(c).some
Gate(c) == answers[c.parent].identifier = ALGORITHM_IDENTIFIER_V2
KeyResolves(c) == answers[c.parent].key_hash.ok
SignedBytes(c) ==
    encode_calculation(Calculation(c.pre_hash, c.difficulty, SealOf(c).v.nonce))
SignatureVerifies(c) ==
    sr25519_verify(SealOf(c).v.signature, SignedBytes(c), AuthorOf(c).v)
SealRecomputes(c) ==
    SealV2(c.difficulty, SealOf(c).v.nonce, SealOf(c).v.signature) = SealOf(c).v
DigestValid(c) ==
    is_valid_hash(Digest(answers[c.parent].key_hash.hash,
                         SignedBytes(c) \o SealOf(c).v.signature),
                  c.difficulty)
\* The five conditions of verify; the last two need the key hash.
FiveHold(c) ==
    /\ SealDecodes(c)
    /\ AuthorDecodes(c)
    /\ SignatureVerifies(c)
    /\ KeyResolves(c)
    /\ SealRecomputes(c)
    /\ DigestValid(c)

\* C1, as amended: when the runtime's identifier for the parent is the v2
\* identifier and the key hash of the parent resolves, verify returns true
\* exactly when the five conditions hold (seal decodes, author present and
\* decodable, signature verifies, recomputed seal equal, digest valid) and
\* false when one of them fails; under another identifier, or without the key
\* hash, it never returns true.
C1_VerifyVerdict ==
    \A w \in Workers :
        Done(w, "verify") =>
            IF Gate(call[w])
            THEN IF call[w].result = "true" THEN FiveHold(call[w])
                 ELSE /\ ~ FiveHold(call[w])
                      /\ KeyResolves(call[w]) => call[w].result = "false"
            ELSE call[w].result \in {"err", "panic"}

\* C1, witness: a verify call that returned true after one hash.
C1_VerifiedTrue ==
    \E w \in Workers :
        Done(w, "verify") /\ call[w].result = "true" /\ call[w].hashes = 1

\* C1, as stated: verify returns true if and only if the five conditions hold
\* for the call.
C1_Literal ==
    \A w \in Workers :
        Done(w, "verify") => (call[w].result = "true" <=> FiveHold(call[w]))

\* C2, as stated: a verify call whose seal bytes or author bytes do not decode
\* returns false, whatever the header backend holds.
C2_MalformedIsFalse ==
    \A w \in Workers :
        Done(w, "verify")
          /\ (~ SealDecodes(call[w])
                \/ (call[w].pre_digest.some /\ ~ AuthorDecodes(call[w])))
        => call[w].result = "false"

\* C2, witness: a verify call on malformed input that did return false.
C2_MalformedRejected ==
    \E w \in Workers :
        Done(w, "verify") /\ ~ SealDecodes(call[w]) /\ call[w].result = "false"

\* The call of verify the miner of `m` meant: same parent, pre-hash,
\* difficulty, author and the seal as mined.
SameCall(c, m) ==
    /\ c.parent = m.parent
    /\ c.pre_hash = m.pre_hash
    /\ c.pre_digest = m.pre_digest
    /\ c.difficulty = m.difficulty
    /\ c.seal = m.seal

\* C3, as stated: verify called with the arguments of a mine call on the seal
\* it returned gives true, on whichever worker.
C3_RoundTrip ==
    \A w \in Workers :
        Done(w, "verify") /\ mined.some /\ SameCall(call[w], mined.v)
        => call[w].result = "true"

\* C3, witness: a mined seal verified as true, after one hash, by the call
\* its miner meant.
C3_RoundTripTrue ==
    \E w \in Workers :
        /\ Done(w, "verify") /\ mined.some /\ SameCall(call[w], mined.v)
        /\ call[w].hashes = 1
        /\ call[w].result = "true"

\* C4, as amended: verify never returns true for a seal whose difficulty field
\* differs from the difficulty argument, and returns false for it when the
\* identifier is v2 and the key hash resolves.
C4_DifficultyField ==
    \A w \in Workers :
        Done(w, "verify") /\ SealDecodes(call[w])
          /\ SealOf(call[w]).v.difficulty # call[w].difficulty
        => /\ call[w].result # "true"
           /\ Gate(call[w]) /\ KeyResolves(call[w]) => call[w].result = "false"

\* C4, witness: a mined seal altered in its difficulty field only, rejected
\* after the hash was recomputed.
C4_AlteredRejected ==
    \E w \in Workers :
        /\ Done(w, "verify") /\ mined.some
        /\ call[w].seal # mined.v.seal
        /\ SealDecodes(call[w])
        /\ SealOf(call[w]).v.difficulty # call[w].difficulty
        /\ SameCall([call[w] EXCEPT !.seal = mined.v.seal], mined.v)
        /\ SubSeq(call[w].seal, HASH_SIZE + 1, SealV2Len)
              = SubSeq(mined.v.seal, HASH_SIZE + 1, SealV2Len)
        /\ call[w].hashes = 1
        /\ call[w].result = "false"

\* C4, as stated: verify returns false for every seal whose difficulty field
\* differs from the difficulty argument.
C4_Literal ==
    \A w \in Workers :
        Done(w, "verify") /\ SealDecodes(call[w])
          /\ SealOf(call[w]).v.difficulty # call[w].difficulty
        => call[w].result = "false"

\* The digest of a direct compute call with the key hash, whatever the state.
ExpectedWork(key) ==
    Bind(ComputeV2(key), LAMBDA c :
        Digest(key, encode_calculation(Calculation(c.pre_hash, c.difficulty, c.nonce))
                      \o c.signature))

\* C5: compute returns the digest its inputs decide in every reachable state,
\* on every worker, whatever the cache index and the VM bindings went through.
C5_Deterministic ==
    \A w \in Workers :
        Done(w, "compute") =>
            /\ call[w].result = "work"
            /\ call[w].work = ExpectedWork(call[w].key_hash)

\* C5, witness: a compute call answered on a VM whose cache was evicted from
\* the index, after a rebuild of another cache.
C5_ServedAfterEviction ==
    \E w \in Workers :
        /\ Done(w, "compute") /\ call[w].result = "work"
        /\ \A i \in 1..Len(shared_caches) :
               shared_caches[i].value # machines[w].v.vm.cache
        /\ constructed = MaxBuilds

\* C6: the index holds at most CACHE_CAPACITY entries and a worker's binding
\* is no binding or one VM, bound to the cache of the worker's key hash.
C6_Bounded ==
    /\ Len(shared_caches) <= CACHE_CAPACITY
    /\ \A w \in Workers :
          \/ machines[w] = None
          \/ /\ machines[w].some
             /\ machines[w] = Some([key_hash |-> machines[w].v.key_hash,
                                    vm |-> FullVM(machines[w].v.vm.cache)])
             /\ machines[w].v.vm.cache.key = machines[w].v.key_hash

\* C6, witness: a full index after an eviction, every worker bound.
C6_FullAfterEviction ==
    /\ Len(shared_caches) = CACHE_CAPACITY
    /\ constructed > CACHE_CAPACITY
    /\ \A w \in Workers : machines[w].some

\* The keys of the index, least recently used first.
IndexKeys == [i \in 1..Len(shared_caches) |-> shared_caches[i].key]

\* The last n elements of a sequence.
LastOf(seq, n) ==
    IF Len(seq) <= n THEN seq ELSE SubSeq(seq, Len(seq) - n + 1, Len(seq))

\* C7: the index holds the CACHE_CAPACITY key hashes used last (looked up or
\* inserted), the least recently used first, so an insert into a full index
\* drops the entry used longest ago; and a cache is constructed exactly for a
\* key the lookup did not find.
C7_LeastRecentlyUsed ==
    /\ IndexKeys = LastOf(recency, CACHE_CAPACITY)
    /\ \A w \in Workers :
          pc[w] = "build" =>
              /\ lock = w
              /\ \A i \in 1..Len(shared_caches) :
                     shared_caches[i].key # call[w].key_hash

\* C7, witness: three keys used in turn, the index left with the last two,
\* and the first key constructed anew as the fourth cache.
C7_RebuiltAfterEviction ==
    \E k1, k2, k3 \in EpochKeys :
        /\ k1 # k2 /\ k2 # k3 /\ k1 # k3
        /\ recency = <<k2, k3, k1>>
        /\ IndexKeys = <<k3, k1>>
        /\ shared_caches[2].value = FullCache(4, k1)
        /\ constructed = 4

\* The preconditions of mine fail for the call.
Abstains(c) ==
    \/ ~ pair.some
    \/ ~ c.pre_digest.some
    \/ ~ decode_public(c.pre_digest.v).some
    \/ decode_public(c.pre_digest.v).v # public(pair.v)

\* C8, as amended: mine with a round budget of 0 computes no hash and returns
\* none, unless the call passes its precondition and the seeding of the
\* generator or the key hash lookup fails: then it returns an error.
C8_NoRounds ==
    \A w \in Workers :
        call[w].op = "mine" /\ call[w].round = 0 =>
            /\ pc[w] = "done"
            /\ call[w].hashes = 0
            /\ call[w].result \in {"none", "err"}
            /\ call[w].result = "err" <=>
                  /\ ~ Abstains(call[w])
                  /\ ~ call[w].rng_ok \/ ~ KeyResolves(call[w])

\* C8, witness: a call with no rounds that passed the precondition, resolved
\* the key hash and returned none.
C8_NoRoundsNone ==
    \E w \in Workers :
        /\ Done(w, "mine") /\ call[w].round = 0 /\ ~ Abstains(call[w])
        /\ call[w].reads > 0 /\ call[w].result = "none" /\ call[w].hashes = 0

\* C8, as stated: mine with a round budget of 0 returns none and computes no
\* hash, whatever the header backend holds.
C8_Literal ==
    \A w \in Workers :
        Done(w, "mine") /\ call[w].round = 0 =>
            call[w].result = "none" /\ call[w].hashes = 0

\* C9: a call of mine whose precondition fails (no signing key, author absent,
\* undecodable or not the key's) returns none in its first step, with no
\* header read, no hash, and the index, the bindings and the construction
\* count as they were.
C9_MineAbstains ==
    [][\A w \in Workers :
          pc[w] = "idle" /\ call'[w].op = "mine" /\ Abstains(call'[w]) =>
              /\ pc'[w] = "done"
              /\ call'[w].result = "none"
              /\ call'[w].reads = 0
              /\ call'[w].hashes = 0
              /\ shared_caches' = shared_caches
              /\ machines' = machines
              /\ constructed' = constructed
              /\ recency' = recency]_vars

\* C9, witness: a node with a signing key abstained for another author, on a
\* worker with a VM bound.
C9_Abstained ==
    \E w \in Workers :
        /\ Done(w, "mine") /\ pair.some /\ machines[w].some
        /\ call[w].pre_digest = Some(public("bob"))
        /\ call[w].result = "none" /\ call[w].reads = 0

\* The ancestor at height k of block b.
AncestorAt(b, k) ==
    IF b.fork = 1 /\ k <= ForkPoint THEN Block(0, k) ELSE Block(b.fork, k)

\* The anchor height as the claim words it, and with the last step stopping
\* at 0.
ClaimedAnchor(n) ==
    LET k == n - (n % PERIOD) IN IF n - k < OFFSET THEN k - PERIOD ELSE k
EpochAnchor(n) == IF ClaimedAnchor(n) < 0 THEN 0 ELSE ClaimedAnchor(n)

\* The epoch window of height n: window i holds the heights from
\* i * PERIOD + OFFSET up to (i + 1) * PERIOD + OFFSET - 1, and window 0 the
\* heights below OFFSET as well.
EpochWindow(n) == IF n < OFFSET THEN 0 ELSE (n - OFFSET) \div PERIOD

\* C10, as amended: on a chain with every header available, the parent at
\* height n resolves to its ancestor at height k = n - (n mod 4096), lowered
\* by 4096 when n - k < 128 but not below 0; 4096 resolves to block 0, 4300 to
\* block 4096, and every parent of epoch window i resolves to its chain's
\* block at height 4096 * i.
C10_EpochKey ==
    \A w \in Workers :
        unknown = {} /\ Done(w, "key_hash") =>
            LET b == BlockOf(call[w].parent)
            IN /\ call[w].result = "ok"
               /\ call[w].key_hash = BlockHash(AncestorAt(b, EpochAnchor(b.number)))
               /\ b.number = PERIOD => call[w].key_hash = BlockHash(Block(0, 0))
               /\ b.number = 4300 =>
                     call[w].key_hash = BlockHash(AncestorAt(b, PERIOD))
               /\ call[w].key_hash =
                     BlockHash(AncestorAt(b, PERIOD * EpochWindow(b.number)))

\* C10, witness: the parent at height 4096 resolved to the genesis block.
C10_BoundaryResolved ==
    \E w \in Workers :
        /\ unknown = {} /\ Done(w, "key_hash")
        /\ BlockOf(call[w].parent).number = PERIOD
        /\ call[w].key_hash = BlockHash(Block(0, 0))

\* C10, as stated: the parent at height n resolves to its ancestor at height
\* k = n - (n mod 4096), lowered by 4096 when n - k < 128.
C10_Literal ==
    \A w \in Workers :
        unknown = {} /\ Done(w, "key_hash") =>
            LET b == BlockOf(call[w].parent)
            IN /\ call[w].result = "ok"
               /\ call[w].key_hash = BlockHash(AncestorAt(b, ClaimedAnchor(b.number)))

\* Digits lo..hi of acc + n * d * 256^(j - 1), given the carry into digit lo,
\* and the carry out of digit hi: acc has 2 * HASH_SIZE + 1 digits, n has
\* HASH_SIZE.
RECURSIVE AddRowDigits(_, _, _, _, _, _, _)
AddRowDigits(acc, n, d, j, lo, hi, carry) ==
    IF lo = hi
    THEN Only({ [digits |-> <<t % 256>>, carry |-> t \div 256] :
                t \in {acc[lo] + carry
                         + (IF lo - j + 1 \in 1..HASH_SIZE
                            THEN n[lo - j + 1] * d ELSE 0)} })
    ELSE Only({ Only({ [digits |-> left.digits \o right.digits,
                        carry  |-> right.carry] :
                       right \in {AddRowDigits(acc, n, d, j, (lo + hi) \div 2 + 1,
                                               hi, left.carry)} }) :
                left \in {AddRowDigits(acc, n, d, j, lo, (lo + hi) \div 2, carry)} })

\* acc + n * d * 256^(j - 1)
AddRow(acc, n, d, j) ==
    IF d = 0 THEN acc
    ELSE AddRowDigits(acc, n, d, j, 1, Len(acc), 0).digits

\* acc + n * (the digits lo..hi of d, in their places), row by row.
RECURSIVE AddRows(_, _, _, _, _)
AddRows(acc, n, d, lo, hi) ==
    IF lo = hi THEN AddRow(acc, n, d[lo], lo)
    ELSE Only({ AddRows(half, n, d, (lo + hi) \div 2 + 1, hi) :
                  half \in {AddRows(acc, n, d, lo, (lo + hi) \div 2)} })

\* The product N x D in full precision, as 2 * HASH_SIZE + 1 digits, summed
\* row by row.
FullProduct(n, d) ==
    Only({ AddRows([k \in 1..(2 * HASH_SIZE + 1) |-> 0] \o << >>, x, y,
                   1, HASH_SIZE) :
             x \in {n \o << >>}, y \in {d \o << >>} })

\* N x D <= 2^256 - 1
FitsU256(n, d) ==
    \E full \in {FullProduct(n, d)} :
        \A k \in (HASH_SIZE + 1)..(2 * HASH_SIZE + 1) : full[k] = 0

\* C11: is_valid_hash(digest, difficulty) is true exactly when the product
\* N x D in full precision is at most 2^256 - 1; a product of 2^256 or more is
\* refused also when it wraps to a small number (2^128 x 2^128 and 2^255 x 2
\* wrap to 0), and (2^128 - 1) x (2^128 + 1) = 2^256 - 1 is accepted.
C11_ValidIffFits ==
    \A w \in Workers :
        Done(w, "is_valid") =>
            /\ call[w].result = "true"
                  <=> FitsU256(U256_from_be(call[w].work), call[w].difficulty)
            /\ call[w].difficulty \in {U256Digit(0, 0), U256Digit(0, 1)}
                  => call[w].result = "true"
            /\ call[w].work = HashFrom(17, 1, 0) /\ call[w].difficulty = U256Digit(16, 1)
                  => call[w].result = "false"
            /\ call[w].work = H256(128, 0) /\ call[w].difficulty = U256Digit(0, 2)
                  => call[w].result = "false"
            /\ call[w].work = HashFrom(17, 0, 255)
                  /\ call[w].difficulty = Reverse([H256(0, 1) EXCEPT ![16] = 1])
                  => call[w].result = "true"

\* C11, witness: the product 2^128 x 2^128 = 2^256, which wraps to 0, refused.
C11_WrapRefused ==
    \E w \in Workers :
        /\ Done(w, "is_valid")
        /\ call[w].work = HashFrom(17, 1, 0)
        /\ call[w].difficulty = U256Digit(16, 1)
        /\ overflowing_mul(U256_from_be(call[w].work), call[w].difficulty).value
              = U256Digit(0, 0)
        /\ call[w].result = "false"

\* The index has an entry for the key; the cache it holds for it.
Resident(index, key) == \E i \in 1..Len(index) : index[i].key = key
EntryFor(index, key) == index[IndexOf(index, key)].value

\* No two entries of the index have one key, and each holds its key's cache.
NoTwoEntries(index) ==
    \A i, j \in 1..Len(index) :
        /\ index[i].value.key = index[i].key
        /\ i # j => index[i].key # index[j].key

\* The worker's binding is a VM on the cache the index holds for the key.
BoundToEntry(ms, index, key) ==
    /\ Resident(index, key)
    /\ ms = Some([key_hash |-> key, vm |-> FullVM(EntryFor(index, key))])

\* C12: insert-or-fetch is idempotent.  A lookup that finds the key constructs
\* nothing and binds the worker to the cache in the index; a cache is
\* constructed only for a key the index does not hold, by one worker at a
\* time, and is then the one entry of its key, to which the worker is bound;
\* so until an entry is evicted all workers bound to a key share its one
\* entry, and the index never holds two entries for one key.
C12_InsertOrFetch ==
    [][/\ NoTwoEntries(shared_caches')
       /\ \A w \in Workers :
            /\ pc[w] = "lock" /\ pc'[w] = "calc" =>
                  /\ constructed' = constructed
                  /\ Resident(shared_caches, call[w].key_hash)
                  /\ EntryFor(shared_caches', call[w].key_hash)
                        = EntryFor(shared_caches, call[w].key_hash)
                  /\ BoundToEntry(machines'[w], shared_caches', call[w].key_hash)
            /\ pc[w] = "build" /\ pc'[w] = "calc" =>
                  /\ ~ Resident(shared_caches, call[w].key_hash)
                  /\ constructed' = constructed + 1
                  /\ \A v \in Workers \ {w} : pc[v] # "build"
                  /\ BoundToEntry(machines'[w], shared_caches', call[w].key_hash)
       /\ constructed' <= CACHE_CAPACITY =>
            \A w \in Workers :
                machines'[w].some =>
                    BoundToEntry(machines'[w], shared_caches', machines'[w].v.key_hash)
      ]_vars

\* C12, witness: every worker has computed with the same key hash, one cache
\* was constructed, and all are bound to it.
C12_OneEntryShared ==
    /\ constructed = 1
    /\ Len(shared_caches) = 1
    /\ \A w \in Workers :
          /\ Done(w, "compute")
          /\ machines[w].some
          /\ machines[w].v.vm.cache = shared_caches[1].value

\* C13: a worker at the hash of compute does not hold the lock of the index:
\* the lock is free or held by a worker that is constructing a cache, so the
\* workers at the lookup are not kept out by a hash, and the worker hashes on
\* the VM of its own binding.
C13_HashOutsideLock ==
    /\ lock # 0 => pc[lock] = "build"
    /\ \A w \in Workers :
          pc[w] = "calc" => /\ lock # w
                            /\ machines[w].some

\* C13, witness: one worker is at its hash on a VM of its key hash while
\* another worker holds the lock and constructs a cache.
C13_HashBesideBuild ==
    \E w, v \in Workers :
        /\ pc[w] = "calc" /\ machines[w].v.key_hash = call[w].key_hash
        /\ pc[v] = "build" /\ lock = v

\* C14, as stated: while a worker constructs the cache of a non-resident key
\* hash the lock of the index is not held, so a worker at the lookup of a
\* resident key hash does not have to wait.
C14_BuildOutsideLock ==
    \A w, v \in Workers :
        pc[w] = "build" /\ pc[v] = "lock"
          /\ Resident(shared_caches, call[v].key_hash)
        => lock = 0

\* C15: at the hash of compute the worker's binding is set and bound to the
\* key hash of the request, whatever key hashes the workers computed with
\* before; no call of compute ends in the panic of the assertion or of the
\* expect.
C15_BoundAtHash ==
    \A w \in Workers :
        /\ pc[w] = "calc" =>
              /\ machines[w].some
              /\ machines[w].v.key_hash = call[w].key_hash
              /\ machines[w].v.vm.cache.key = call[w].key_hash
        /\ pc[w] = "done" => call[w].result # "panic"

\* C15, witness: two workers at their hash on VMs of the one cache of their
\* key hash, the third cache constructed.
C15_BoundAtThirdCache ==
    \E w, v \in Workers :
        /\ w # v
        /\ pc[w] = "calc" /\ pc[v] = "calc"
        /\ machines[w].v.key_hash = call[w].key_hash
        /\ machines[v].v.key_hash = call[v].key_hash
        /\ machines[v].v.vm.cache = machines[w].v.vm.cache
        /\ machines[w].v.vm.cache.id = 3

\* C16: a call of compute with the key hash the worker is bound to goes
\* straight to the hash, without a lookup, and leaves the index (entries and
\* order of use), the lock, the count of constructions and every worker's
\* binding as they are; so does the hash, which returns the digest of the
\* call's inputs on the VM the worker had, also when the index holds that
\* key's entry no longer.
C16_ReuseOnHit ==
    [][\A w \in Workers :
          /\ pc[w] = "idle" /\ call'[w].op = "compute" /\ machines[w].some
                /\ call'[w].key_hash = machines[w].v.key_hash
              => /\ pc'[w] = "calc"
                 /\ UNCHANGED caches
          /\ pc[w] = "calc" /\ pc'[w] = "done" /\ call[w].op = "compute"
              => /\ UNCHANGED caches
                 /\ call'[w].result = "work"
                 /\ call'[w].work = ExpectedWork(call[w].key_hash)]_vars

\* C16, witness: with the calls running one at a time, a call has returned
\* its digest for a key hash the index does not hold: other workers' calls
\* evicted the entry, and the call was answered on the VM the worker had.
C16_ReusedAfterEviction ==
    \E w \in Workers :
        /\ Done(w, "compute") /\ call[w].result = "work"
        /\ machines[w].v.vm.cache.id = 1
        /\ ~ Resident(shared_caches, call[w].key_hash)
        /\ \A v \in Workers \ {w} : pc[v] = "idle"

\* The call of mine by worker w is past its precondition and its setup, in
\* its loop.
Mining(c) == c.op = "mine" /\ ~ Abstains(c) /\ c.rng_ok /\ KeyResolves(c)

\* The digest and the seal of the attempt the call is at.
AttemptWork(c) ==
    Digest(c.key_hash,
           encode_calculation(Calculation(c.pre_hash, c.difficulty, c.nonce))
              \o c.signature)
AttemptSeal(c) == encode_seal(SealV2(c.difficulty, c.nonce, c.signature))

\* C17, the steps of the loop: a call of mine past its precondition holds the
\* header reads of one key hash resolution whatever the number of attempts,
\* and has hashed at most `round` times; each attempt has a nonce drawn for it
\* and the signature of its calculation; the first attempt whose digest is
\* valid ends the call with its encoded seal, an invalid one is followed by
\* another attempt while the budget lasts and by none when it is used up.
MineLoopStep ==
    \A w \in Workers :
        /\ Mining(call'[w]) =>
              /\ call'[w].reads = answers[call'[w].parent].key_hash.reads
              /\ call'[w].key_hash = answers[call'[w].parent].key_hash.hash
              /\ call'[w].hashes <= call'[w].round
              /\ call'[w].result \in {"", "seal", "none"}
              /\ call'[w].result = "" =>
                    /\ call'[w].nonce \in Nonces
                    /\ compute_verify(call'[w], call'[w].signature, public(pair.v))
        /\ Mining(call[w]) /\ call'[w].hashes = call[w].hashes + 1 =>
              /\ call'[w].work = AttemptWork(call[w])
              /\ IF is_valid_hash(call'[w].work, call[w].difficulty)
                 THEN /\ pc'[w] = "done" /\ call'[w].result = "seal"
                      /\ mined'.some /\ mined'.v.seal = AttemptSeal(call[w])
                 ELSE IF call'[w].hashes = call[w].round
                 THEN pc'[w] = "done" /\ call'[w].result = "none" /\ mined' = mined
                 ELSE pc'[w] # "done" /\ call'[w].result = "" /\ mined' = mined

\* What is left of a call of mine: the attempts of its budget not yet hashed,
\* and within the attempt the way to its hash.
MineMeasure(p, c) ==
    3 * (c.round - c.hashes)
      + (IF p = "lock" THEN 2 ELSE IF p = "build" THEN 1 ELSE 0)

\* C17, the end of the call: a call of mine that is under way can take its
\* next step (the lock is free when it waits for it, and its own while it
\* builds; the hash has no condition), and every step of it brings it nearer
\* to its end.
MineProgress ==
    \A w \in Workers :
        /\ call[w].op = "mine" =>
              /\ pc[w] = "lock" => lock = 0
              /\ pc[w] = "build" => lock = w
              /\ pc[w] \in {"lock", "build", "calc", "done"}
        /\ call[w].op = "mine" /\ call'[w].op = "mine"
              /\ <<pc[w], call[w]>> # <<pc'[w], call'[w]>> =>
              /\ MineMeasure(pc'[w], call'[w]) < MineMeasure(pc[w], call[w])
              /\ MineMeasure(pc'[w], call'[w]) >= 0

LooksUp(c) ==
    \/ c.op = "verify" /\ answers[c.parent].identifier \in {"err", ALGORITHM_IDENTIFIER_V2}
    \/ c.op = "mine" /\ ~ Abstains(c)

\* C18: a call of verify or mine that looks up the headers of a parent whose
\* header, or one on the walk back from it, the backend does not have returns
\* an error, neither none nor false; it computes no hash and leaves the shared
\* index, the VM bindings, the lock and the count of caches built as they
\* were, and once it has returned the node and the worker are as before the
\* call (a seal handed to the call is the caller's, and used up by it).
C18_LookupFailure ==
    [][\A w \in Workers :
         /\ pc[w] = "idle" /\ LooksUp(call'[w]) /\ ~ KeyResolves(call'[w]) =>
               /\ pc'[w] = "done"
               /\ call'[w].result = "err"
               /\ call'[w].hashes = 0 /\ call'[w].work = << >>
               /\ UNCHANGED <<node, caches>>
         /\ pc[w] = "done" /\ LooksUp(call[w]) /\ ~ KeyResolves(call[w])
               /\ pc'[w] # "done" =>
               /\ pc'[w] = "idle" /\ call'[w] = IdleCall
               /\ UNCHANGED <<node, caches>>]_vars

\* C18, witness: with a cache in the index and a VM bound, a call of verify
\* under the v2 identifier returned an error after the walk back from its
\* parent met a header the backend does not have.
C18_WalkFailed ==
    \E w \in Workers :
        /\ Done(w, "verify") /\ Gate(call[w]) /\ ~ KeyResolves(call[w])
        /\ call[w].reads >= 2
        /\ call[w].result = "err"
        /\ Len(shared_caches) > 0 /\ machines[w].some

\* The runtime answers for the parent of the call with an identifier, and it
\* is not the v2 one.
OtherGeneration(c) ==
    answers[c.parent].identifier \notin {"err", ALGORITHM_IDENTIFIER_V2}

\* C19, as stated: a call of verify or mine on a parent whose identifier is
\* not the v2 one computes no hash, produces no seal, and ends neither with
\* true nor with false but with a refusal (an error, or the failed
\* assertion of verify), unless it is a call of mine that abstains.
C19_VersionGate ==
    \A w \in Workers :
        call[w].op \in {"verify", "mine"} /\ OtherGeneration(call[w]) =>
            /\ call[w].hashes = 0
            /\ call[w].result \notin {"true", "false", "seal"}
            /\ pc[w] = "done" /\ ~ (call[w].op = "mine" /\ Abstains(call[w])) =>
                  call[w].result \in {"err", "panic"}

\* C19, what the code does: mine on such a parent returned a seal after a
\* hash.
C19_MinedOtherGeneration ==
    \E w \in Workers :
        /\ Done(w, "mine") /\ OtherGeneration(call[w])
        /\ call[w].hashes >= 1
        /\ call[w].result = "seal"

\* The anchor height of every parent height of the modelled chain: a multiple
\* of 4096, at most n, less than 4096 + 128 below it, and 0 below 4224.
KeyNumberInRange ==
    \A n \in 0..MaxHeight :
        \E key_number \in {key_number_of(n)} :
            /\ key_number % PERIOD = 0
            /\ key_number >= 0 /\ key_number <= n
            /\ n - key_number < PERIOD + OFFSET
            /\ n < PERIOD + OFFSET => key_number = 0

\* C20: on a chain with every header available, key_hash of a parent at
\* height n returns the block of its chain at a height key_number that is a
\* multiple of 4096, at most n and less than 4096 + 128 below n, after the
\* read of the parent header and exactly n - key_number reads on the walk
\* back; key_number is 0 for every n < 4224.  On any backend the walk reads
\* no header below the genesis block.  The anchor height is in that range
\* for every height of the chain, called with or not.
C20_WalkBound ==
    \A w \in Workers :
        Done(w, "key_hash") =>
            LET n == BlockOf(call[w].parent).number
            IN /\ KeyNumberInRange
               /\ call[w].reads <= 1 + n
               /\ call[w].reads <= PERIOD + OFFSET
               /\ unknown = {} =>
                     /\ call[w].result = "ok"
                     /\ \E key_number \in {BlockOf(call[w].key_hash).number} :
                           /\ key_number % PERIOD = 0
                           /\ key_number >= 0 /\ key_number <= n
                           /\ n - key_number < PERIOD + OFFSET
                           /\ call[w].reads = 1 + (n - key_number)
                           /\ n < PERIOD + OFFSET => key_number = 0
                           /\ call[w].key_hash =
                                 BlockHash(AncestorAt(BlockOf(call[w].parent),
                                                      key_number))

\* C20, witness: the parent at height 127, where the last subtraction
\* saturates, resolved to the genesis block after 127 reads on the walk.
C20_SaturatedAtGenesis ==
    \E w \in Workers :
        /\ unknown = {} /\ Done(w, "key_hash")
        /\ BlockOf(call[w].parent).number = OFFSET - 1
        /\ call[w].key_hash = BlockHash(Block(0, 0))
        /\ call[w].reads = OFFSET

====
